---- MODULE Spec2Model ----
(***************************************************************************)
(* image2arm: src/main.rs.  One run of main: the command-line files are    *)
(* read into images, assets.s is created, the palette of all the images is *)
(* written, the bit width is derived from it, every image is packed and    *)
(* rendered, and the asset address table closes the file.                  *)
(***************************************************************************)
EXTENDS Integers, Sequences, FiniteSets, TLC

VARIABLES
    args,             \* std::env::args().skip(1): what each file turns out to be
    overflow_checks,  \* the build: are integer overflow checks compiled in
    pc,               \* position of main
    err,              \* the error or panic that ended the run ("" while none)
    images,           \* images: ImageSet
    file_created,     \* File::create("assets.s") has succeeded
    file,             \* what has been written to assets.s, in order
    palette,          \* palette.colours
    bits_per_colour,
    pixels_per_byte,
    labels,           \* labels: Vec<Label>
    packed            \* the outcome of packing of every image to_asm was called on

vars == <<args, overflow_checks, pc, err, images, file_created, file, palette,
          bits_per_colour, pixels_per_byte, labels, packed>>

----------------------------------------------------------------------------
(* Bounds of the model *)

\* most files on the command line (exhaustive inputs)
MaxImages == 2
\* most pixels of the images of a command line together (exhaustive inputs)
MaxPixels == 3
\* most distinct colours of the many-coloured inputs
MaxWide == 257
\* largest palette size up to which every size is an input
WideDense == 24
\* largest palette whose every iteration order is explored
MaxPerm == 3

----------------------------------------------------------------------------
(* Program constants *)

\* size of u8: the accumulator of the fold and the cast `as u8`
U8Size == 256
\* width of u8 in bits: the `8` of `8 / bits_per_colour`
U8Bits == 8
\* packed.chunks_exact(5)
RowWidth == 5
\* `/ 4` of the table constants: the size of a DEFW entry
EntrySize == 4
\* std::mem::size_of::<Pixel>()
PIXEL_BYTES == 4

\* Pixel = rgb::RGBA<u8>: the four channel bytes r, g, b, a; two pixels are
\* equal exactly when all four channels are
Rgba(r, g, b, a) == <<r, g, b, a>>

\* channel ch (1 = r .. 4 = a) of a pixel
Channel(pixel, ch) == pixel[ch]

Red   == Rgba(255, 0, 0, 255)
Green == Rgba(0, 255, 0, 255)
Blue  == Rgba(0, 0, 255, 255)

\* the colours of the exhaustive inputs
SmallPixels == {Red, Green}
\* the names of the exhaustive inputs (file stems)
Names == {"a", "b"}
\* where reading a file can fail
FailKinds == {"open", "decode", "len", "name"}

\* the c-th colour of a many-coloured input
WidePixel(c) == Rgba(c % U8Size, c \div U8Size, 0, 255)

----------------------------------------------------------------------------
(* Helpers *)

Range(s) == {s[k] : k \in 1..Len(s)}

Min(a, b) == IF a < b THEN a ELSE b

RECURSIVE Pow2(_)
Pow2(n) == IF n <= 0 THEN 1 ELSE 2 * Pow2(n - 1)

RECURSIVE CeilLog2From(_, _)
CeilLog2From(n, k) == IF Pow2(k) >= n THEN k ELSE CeilLog2From(n, k + 1)

\* (n as f64).log2().ceil() as usize: log2(0) is -inf, and the cast saturates
\* to 0; log2 of a power of two is exact
CeilLog2(n) == IF n = 0 THEN 0 ELSE CeilLog2From(n, 0)

RECURSIVE BitOr(_, _)
BitOr(a, b) ==
    IF a = 0 THEN b
    ELSE IF b = 0 THEN a
    ELSE (IF a % 2 = 1 \/ b % 2 = 1 THEN 1 ELSE 0) + 2 * BitOr(a \div 2, b \div 2)

\* {:02X}: the two hexadecimal digits of a byte, and their value read back
Hex2(b) == <<b \div 16, b % 16>>
UnHex2(h) == 16 * h[1] + h[2]

----------------------------------------------------------------------------
(* Outcomes: a value, or the error or panic that replaced it *)

Ok(v) == [ok |-> TRUE, val |-> v, why |-> ""]
Err(msg) == [ok |-> FALSE, val |-> 0, why |-> msg]
Panicked(msg) == [ok |-> FALSE, val |-> 0, why |-> msg]

----------------------------------------------------------------------------
(* Palette *)

RECURSIVE FlatPixels(_)
\* images.iter().flat_map(|image| image.iter().copied())
FlatPixels(imgs) ==
    IF imgs = <<>> THEN <<>> ELSE Head(imgs).pixels \o FlatPixels(Tail(imgs))

\* colourset: HashSet<Pixel>, the distinct pixels of all the images
colourset(imgs) == Range(FlatPixels(imgs))

\* the distinct elements of flat in the order of their first appearance
FirstSeen(flat) ==
    IF Cardinality(Range(flat)) = Len(flat) THEN flat
    ELSE LET firsts == {k \in 1..Len(flat) : \A j \in 1..(k - 1) : flat[j] # flat[k]}
         IN  [r \in 1..Cardinality(firsts) |->
                 flat[CHOOSE k \in firsts : Cardinality({j \in firsts : j <= k}) = r]]

Reverse(s) == [k \in 1..Len(s) |-> s[Len(s) + 1 - k]]

\* The orders colourset.iter() may yield: a HashSet iterates in an arbitrary
\* order.  Every order of a set of at most MaxPerm colours; of a larger set,
\* the order of first appearance and its reverse.
IterOrders(imgs) ==
    LET set == colourset(imgs)
        n   == Cardinality(set)
    IN  IF n <= MaxPerm
        THEN {f \in [1..n -> set] : \A a, b \in 1..n : a # b => f[a] # f[b]}
        ELSE LET fs == FirstSeen(FlatPixels(imgs))
             IN  {fs, Reverse(fs)}

\* the palette collected into a Vec at once, without the HashSet
new_from_images_undeduplicated(imgs) == {FlatPixels(imgs)}

\* Palette::new_from_images: the values palette.colours may take
new_from_images(imgs) == IterOrders(imgs)

\* Palette::index: colours.iter().position(|c| c == colour)
index(colours, colour) ==
    LET at == {k \in 1..Len(colours) : colours[k] = colour}
    IN  IF at # {}
        THEN [found |-> TRUE, at |-> (CHOOSE k \in at : \A j \in at : k <= j) - 1]
        ELSE [found |-> FALSE, at |-> 0]

\* Palette::len
len(colours) == Len(colours)

----------------------------------------------------------------------------
(* Image::to_asm *)

\* acc << bits_per_colour on a u8: a shift by the width or more panics when
\* overflow checks are compiled in, and otherwise shifts by the amount
\* modulo the width; bits shifted out are lost
shl_u8(acc, s) ==
    IF s >= U8Bits
    THEN IF overflow_checks
         THEN Panicked("attempt to shift left with overflow")
         ELSE Ok((acc * Pow2(s % U8Bits)) % U8Size)
    ELSE Ok((acc * Pow2(s)) % U8Size)

\* the closure of the fold: (acc << bits_per_colour) | (index(pixel).expect() as u8)
fold_step(acc, pixel, colours, bits) ==
    IF ~acc.ok THEN acc
    ELSE LET sh == shl_u8(acc.val, bits)
         IN  IF ~sh.ok THEN sh
             ELSE LET ix == index(colours, pixel)
                  IN  IF ~ix.found
                      THEN Panicked("_Palette doesn't contain this pixel.")
                      ELSE Ok(BitOr(sh.val, ix.at % U8Size))

RECURSIVE fold_upto(_, _, _, _)
fold_upto(chunk, m, colours, bits) ==
    IF m = 0 THEN Ok(0)
    ELSE fold_step(fold_upto(chunk, m - 1, colours, bits), chunk[m], colours, bits)

\* the fold without .rev(): the first pixel is folded first
fold_forward(chunk, k, colours, bits) == fold_upto(chunk, Len(chunk), colours, bits)

RECURSIVE fold_rev(_, _, _, _)
\* chunk.iter().rev().fold(0_u8, ...) over chunk[k..]: the last pixel is folded first
fold_rev(chunk, k, colours, bits) ==
    IF k > Len(chunk) THEN Ok(0)
    ELSE fold_step(fold_rev(chunk, k + 1, colours, bits), chunk[k], colours, bits)

\* slice.chunks(n), n > 0: consecutive groups of n, the last one possibly shorter
chunks(s, n) ==
    [c \in 1..((Len(s) + n - 1) \div n) |->
        SubSeq(s, (c - 1) * n + 1, Min(c * n, Len(s)))]

\* slice.chunks_exact(n): the groups of exactly n; the remainder is left out
chunks_exact(s, n) ==
    [c \in 1..(Len(s) \div n) |-> SubSeq(s, (c - 1) * n + 1, c * n)]

\* the packing of to_asm: pixels.chunks(pixels_per_byte).map(fold).collect()
pack(pixels, colours, ppb, bits) ==
    IF ppb = 0 THEN Panicked("chunk size must be non-zero")
    ELSE LET cs    == chunks(pixels, ppb)
             bytes == [c \in 1..Len(cs) |-> fold_rev(cs[c], 1, colours, bits)]
             bad   == {c \in 1..Len(cs) : ~bytes[c].ok}
         IN  IF bad # {}
             THEN bytes[CHOOSE c \in bad : \A d \in bad : c <= d]
             ELSE Ok([c \in 1..Len(cs) |-> bytes[c].val])

\* the rows of to_asm: one DEFB line of two-digit hexadecimal bytes per row
render_rows(bytes) ==
    LET rows == chunks_exact(bytes, RowWidth)
    IN  [r \in 1..Len(rows) |-> [k \in 1..RowWidth |-> Hex2(rows[r][k])]]

\* Image::to_asm: the label and the rendered block, or the panic of the packing
to_asm(image, colours, ppb, bits) ==
    LET p == pack(image.pixels, colours, ppb, bits)
    IN  IF ~p.ok
        THEN [ok |-> FALSE, why |-> p.why, label |-> "", bytes |-> <<>>, rows |-> <<>>]
        ELSE [ok |-> TRUE, why |-> "", label |-> "_" \o image.name,
              bytes |-> p.val, rows |-> render_rows(p.val)]

\* Palette::to_asm: one DEFB line of the four channels per colour
palette_rows(colours) ==
    [k \in 1..Len(colours) |-> [ch \in 1..PIXEL_BYTES |-> Hex2(Channel(colours[k], ch))]]

----------------------------------------------------------------------------
(* assets.s: the lines written to the BufWriter, which reach the file when  *)
(* the writer is flushed or dropped                                        *)

\* One item of assets.s.  kind: "header", "palette" and "image" (a label and
\* its DEFB rows), "equ" (a constant with a literal value), "align", "label",
\* "defw" (a labelled word holding the address of ref), "equ_expr" (a constant
\* defined as (ref - base) / EntrySize).
Item(kind, label, rows, value, ref, base) ==
    [kind |-> kind, label |-> label, rows |-> rows, value |-> value,
     ref |-> ref, base |-> base]

aatable  == "AssetAddressTable"
aaprefix == "_ADR"

HeaderItem        == Item("header", "", <<>>, 0, "", "")
PaletteItem(cols) == Item("palette", "Palette", palette_rows(cols), 0, "", "")
EquItem(name, v)  == Item("equ", name, <<>>, v, "", "")
ImageItem(r)      == Item("image", r.label, r.rows, 0, "", "")

\* lines 127-148: ALIGN, the table, its end marker, ASSET_MAX, the positions
table_items(lbls) ==
    <<Item("align", "", <<>>, 0, "", ""), Item("label", aatable, <<>>, 0, "", "")>>
    \o [k \in 1..Len(lbls) |-> Item("defw", aaprefix \o lbls[k], <<>>, 0, lbls[k], "")]
    \o <<Item("label", aatable \o "End", <<>>, 0, "", ""),
         Item("equ_expr", "ASSET_MAX", <<>>, 0, aatable \o "End", aatable)>>
    \o [k \in 1..Len(lbls) |->
           Item("equ_expr", "ASSET" \o lbls[k], <<>>, 0, aaprefix \o lbls[k], aatable)]

----------------------------------------------------------------------------
(* The inputs *)

OkFile(nm, px) == [kind |-> "ok", name |-> nm, pixels |-> px]
FailFile(k)    == [kind |-> k, name |-> "", pixels |-> <<>>]

PixelSeqs == UNION {[1..k -> SmallPixels] : k \in 0..MaxPixels}
Files == {OkFile(nm, px) : nm \in Names, px \in PixelSeqs}
             \cup {FailFile(k) : k \in FailKinds}

RECURSIVE TotalPixels(_)
TotalPixels(as) ==
    IF as = <<>> THEN 0 ELSE Len(Head(as).pixels) + TotalPixels(Tail(as))

\* every command line of at most MaxImages files that hold at most MaxPixels
\* pixels between them
SmallArgs ==
    UNION {{as \in [1..n -> Files] : TotalPixels(as) <= MaxPixels} : n \in 0..MaxImages}

\* the scenarios of two images that share one of three colours, and of one
\* image of one colour five times
ScenarioArgs ==
    {<<OkFile("a", <<Red, Green>>), OkFile("b", <<Green, Blue>>)>>,
     <<OkFile("a", <<Red, Red, Red, Red, Red>>)>>}

\* an image of n pixels of n distinct colours
Ramp(n) == [k \in 1..n |-> WidePixel(k)]

\* the palette sizes of the many-coloured inputs: every size up to WideDense,
\* and beyond it the sizes at which the bit width changes, with their
\* neighbours, and the largest size
WideSizes ==
    {n \in 3..MaxWide :
        \/ n <= WideDense
        \/ n = MaxWide
        \/ \E k \in 0..U8Bits : n \in {Pow2(k) - 1, Pow2(k), Pow2(k) + 1}}

\* the many-coloured command lines: one image of n distinct colours, alone
\* or after an image without pixels
WideArgs ==
    {<<OkFile("a", Ramp(n))>> : n \in WideSizes}
        \cup {<<OkFile("a", <<>>), OkFile("b", Ramp(n))>> : n \in WideSizes}

Inputs == SmallArgs \cup ScenarioArgs \cup WideArgs

Init ==
    /\ args \in Inputs
    /\ overflow_checks \in BOOLEAN
    /\ pc = "collect"
    /\ err = ""
    /\ images = <<>>
    /\ file_created = FALSE
    /\ file = <<>>
    /\ palette = <<>>
    /\ bits_per_colour = 0
    /\ pixels_per_byte = 0
    /\ labels = <<>>
    /\ packed = <<>>

----------------------------------------------------------------------------
(* main *)

\* the files of the command line that cannot be read
FailedArgs(as) == {k \in 1..Len(as) : as[k].kind # "ok"}

\* lines 26-85: the images of the command line; collect stops at the first error
collect_images(as) ==
    LET bad == FailedArgs(as)
    IN  IF bad # {}
        THEN Err(as[CHOOSE k \in bad : \A j \in bad : k <= j].kind)
        ELSE Ok([k \in 1..Len(as) |-> [name |-> as[k].name, pixels |-> as[k].pixels]])

CollectImages ==
    /\ pc = "collect"
    /\ LET r == collect_images(args)
       IN  IF r.ok
           THEN /\ images' = r.val
                /\ pc' = "ensure"
                /\ err' = err
           ELSE /\ pc' = "failed"
                /\ err' = r.why
                /\ images' = images
    /\ UNCHANGED <<args, overflow_checks, file_created, file, palette,
                   bits_per_colour, pixels_per_byte, labels, packed>>

\* the check of line 88 left out
ensure_skipped(imgs) == TRUE

\* line 88: ensure!(!images.is_empty(), ...)
ensure_not_empty(imgs) == imgs # <<>>

EnsureNotEmpty ==
    /\ pc = "ensure"
    /\ IF ensure_not_empty(images)
       THEN pc' = "create" /\ err' = err
       ELSE pc' = "failed" /\ err' = "No Images to process."
    /\ UNCHANGED <<args, overflow_checks, images, file_created, file, palette,
                   bits_per_colour, pixels_per_byte, labels, packed>>

\* lines 100-105: create assets.s and write the header; either can fail
CreateFile ==
    /\ pc = "create"
    /\ \/ /\ pc' = "failed"
          /\ err' = "Failed to open output file - 'assets.s'"
          /\ UNCHANGED <<file_created, file>>
       \/ /\ file_created' = TRUE
          /\ file' = file
          /\ pc' = "failed"
          /\ err' = "write"
       \/ /\ file_created' = TRUE
          /\ file' = <<HeaderItem>>
          /\ pc' = "palette"
          /\ err' = err
    /\ UNCHANGED <<args, overflow_checks, images, palette, bits_per_colour,
                   pixels_per_byte, labels, packed>>

\* lines 108-109: build the palette of all the images and write it
BuildPalette ==
    /\ pc = "palette"
    /\ palette' \in new_from_images(images)
    /\ file' = Append(file, PaletteItem(palette'))
    /\ pc' = "bits"
    /\ UNCHANGED <<args, overflow_checks, err, images, file_created,
                   bits_per_colour, pixels_per_byte, labels, packed>>

\* line 112
bits_of(n) == CeilLog2(n)

\* the division guarded by clamping its result to at least one pixel per byte
pixels_of_clamped(bits) ==
    IF bits = 0 THEN Ok(U8Bits) ELSE Ok(IF U8Bits \div bits = 0 THEN 1 ELSE U8Bits \div bits)

\* line 113: 8 / bits_per_colour, which panics when the divisor is 0
pixels_of(bits) ==
    IF bits = 0 THEN Panicked("attempt to divide by zero") ELSE Ok(U8Bits \div bits)

\* lines 112-115
ComputeBits ==
    /\ pc = "bits"
    /\ bits_per_colour' = bits_of(len(palette))
    /\ LET r == pixels_of(bits_per_colour')
       IN  IF r.ok
           THEN /\ pixels_per_byte' = r.val
                /\ file' = file \o <<EquItem("bits_per_colour", bits_per_colour'),
                                     EquItem("pixels_per_byte", r.val)>>
                /\ pc' = "assets"
                /\ err' = err
           ELSE /\ pc' = "panicked"
                /\ err' = r.why
                /\ UNCHANGED <<pixels_per_byte, file>>
    /\ UNCHANGED <<args, overflow_checks, images, file_created, palette, labels, packed>>

\* the loop left after its first turn
assets_written_early(lbls, imgs) == Len(lbls) >= 1

\* the loop of line 119 has consumed every image
assets_written(lbls, imgs) == Len(lbls) = Len(imgs)

\* lines 119-124: one turn of the loop
WriteAsset ==
    /\ pc = "assets"
    /\ ~assets_written(labels, images)
    /\ LET r == to_asm(images[Len(labels) + 1], palette, pixels_per_byte, bits_per_colour)
       IN  /\ packed' = Append(packed, [ok |-> r.ok, bytes |-> r.bytes, why |-> r.why])
           /\ IF r.ok
              THEN /\ labels' = Append(labels, r.label)
                   /\ file' = Append(file, ImageItem(r))
                   /\ UNCHANGED <<pc, err>>
              ELSE /\ pc' = "panicked"
                   /\ err' = r.why
                   /\ UNCHANGED <<labels, file>>
    /\ UNCHANGED <<args, overflow_checks, images, file_created, palette,
                   bits_per_colour, pixels_per_byte>>

\* lines 127-150
WriteTable ==
    /\ pc = "assets"
    /\ assets_written(labels, images)
    /\ file' = file \o table_items(labels)
    /\ pc' = "done"
    /\ UNCHANGED <<args, overflow_checks, err, images, file_created, palette,
                   bits_per_colour, pixels_per_byte, labels, packed>>

\* a writeln! to assets.s fails: the `?` of lines 109-147 ends the run
WriteError ==
    /\ pc \in {"palette", "bits", "assets"}
    /\ pc' = "failed"
    /\ err' = "write"
    /\ UNCHANGED <<args, overflow_checks, images, file_created, file, palette,
                   bits_per_colour, pixels_per_byte, labels, packed>>

Next ==
    \/ CollectImages
    \/ EnsureNotEmpty
    \/ CreateFile
    \/ BuildPalette
    \/ ComputeBits
    \/ WriteAsset
    \/ WriteTable
    \/ WriteError

Spec == Init /\ [][Next]_vars

----------------------------------------------------------------------------
(* What assets.s means to an assembler: the addresses of its labels and the *)
(* values of the constants defined from them                               *)

\* the items of file of one kind, in the order written
ItemsOf(f, kind) == SelectSeq(f, LAMBDA it : it.kind = kind)

\* the bytes an item takes: one per DEFB byte, EntrySize per DEFW
ItemBytes(it) ==
    IF it.kind = "defw" THEN EntrySize
    ELSE Cardinality(UNION {{<<r, k>> : k \in 1..Len(it.rows[r])} : r \in 1..Len(it.rows)})

RECURSIVE AddressAfter(_, _)
\* the location counter after the first k items; ALIGN rounds it up to a word
AddressAfter(f, k) ==
    IF k = 0 THEN 0
    ELSE LET before == AddressAfter(f, k - 1)
         IN  IF f[k].kind = "align"
             THEN ((before + EntrySize - 1) \div EntrySize) * EntrySize
             ELSE before + ItemBytes(f[k])

\* the addresses at which label l is defined
LabelAddresses(f, l) ==
    {AddressAfter(f, k - 1) :
        k \in {j \in 1..Len(f) : /\ f[j].kind \in {"palette", "image", "label", "defw"}
                                 /\ f[j].label = l}}

\* the values an assembler can give the constant `(ref - base) / 4` of item it
ExprValues(f, it) ==
    {(a - b) \div EntrySize : a \in LabelAddresses(f, it.ref), b \in LabelAddresses(f, it.base)}

RECURSIVE ConcatRows(_)
\* the bytes of the DEFB rows of a block, read back in order
ConcatRows(rows) ==
    IF rows = <<>> THEN <<>>
    ELSE [k \in 1..Len(Head(rows)) |-> UnHex2(Head(rows)[k])] \o ConcatRows(Tail(rows))

----------------------------------------------------------------------------
(* Vocabulary of the properties *)

\* line 112 has run: the bit width has been derived from the palette
\* (the run panics at line 113 or later only)
BitsComputed == pc \in {"assets", "done", "panicked"}

\* the palette has been built and written
PaletteBuilt == ItemsOf(file, "palette") # <<>>

\* the bit width the data model asks for: ceil(log2(n)), and at least 1
RequiredBits(n) == IF CeilLog2(n) < 1 THEN 1 ELSE CeilLog2(n)

\* the place of a colour in the palette, counted from 0
PaletteIndex(colour) == (CHOOSE k \in 1..Len(palette) : palette[k] = colour) - 1

RECURSIVE GroupByte(_, _)
\* the byte of a group of pixels: the sum over j of (index of pixel j) << (j * bits)
GroupByte(group, j) ==
    IF j > Len(group) THEN 0
    ELSE PaletteIndex(group[j]) * Pow2((j - 1) * bits_per_colour) + GroupByte(group, j + 1)

\* the bytes the placement rule gives an image: one per group of pixels_per_byte
RequiredBytes(pixels) ==
    [c \in 1..((Len(pixels) + pixels_per_byte - 1) \div pixels_per_byte) |->
        GroupByte(SubSeq(pixels, (c - 1) * pixels_per_byte + 1,
                         Min(c * pixels_per_byte, Len(pixels))), 1)]

\* the placement rule reversed: count fields of bits_per_colour bits, the
\* least significant field of a byte first, each mapped through the palette
Unpack(bytes, count) ==
    [p \in 1..count |->
        LET byte  == bytes[(p - 1) \div pixels_per_byte + 1]
            shift == ((p - 1) % pixels_per_byte) * bits_per_colour
            field == (byte \div Pow2(shift)) % Pow2(bits_per_colour)
        IN  IF field < Len(palette) THEN <<palette[field + 1]>> ELSE <<>>]

----------------------------------------------------------------------------
(* Properties *)

\* C1: once the bit width is derived from a palette of n >= 1 colours it is
\* ceil(log2(n)) and at least 1; a palette of one colour gives 1 bit and 8
\* pixels per byte, and the run does not fail on it.
C1_BitWidthAtLeastOne ==
    (BitsComputed /\ Len(palette) >= 1) =>
        /\ bits_per_colour = RequiredBits(Len(palette))
        /\ Len(palette) = 1 =>
              /\ pixels_per_byte = U8Bits
              /\ err # "attempt to divide by zero"

\* C2: the rendered block of every image holds every byte of its packing
\* exactly once and in packing order, whatever the number of bytes.
C2_EveryPackedByteRendered ==
    LET blocks == ItemsOf(file, "image")
    IN  \A k \in 1..Len(blocks) : ConcatRows(blocks[k].rows) = packed[k].bytes

\* C3: with a bit width of 1 to 8, packing an image yields one byte per group
\* of pixels_per_byte pixels (none for an image without pixels), each the
\* sum over the group of (palette index << (place in group * bits_per_colour)).
C3_PackPlacesFirstPixelLowest ==
    \A k \in 1..Len(packed) :
        bits_per_colour \in 1..U8Bits =>
            /\ packed[k].ok
            /\ packed[k].bytes = RequiredBytes(images[k].pixels)

\* Every packing that returns follows the placement rule; the packings that
\* fall short of C3 are those that panic.
PackedBytesFollowRule ==
    \A k \in 1..Len(packed) :
        packed[k].ok => packed[k].bytes = RequiredBytes(images[k].pixels)

\* C4: unpacking the bytes of a packed image, field by field through the
\* palette, gives back the pixels of the image, those of a short last group
\* included.
C4_UnpackRestoresPixels ==
    \A k \in 1..Len(packed) :
        packed[k].ok =>
            Unpack(packed[k].bytes, Len(images[k].pixels))
                = [p \in 1..Len(images[k].pixels) |-> <<images[k].pixels[p]>>]

\* a packed image of several groups whose last group is short
C4_Witness ==
    \E k \in 1..Len(packed) :
        /\ packed[k].ok
        /\ pixels_per_byte > 1
        /\ Len(images[k].pixels) > pixels_per_byte
        /\ Len(images[k].pixels) % pixels_per_byte # 0

\* the palette holds each colour of the images once, and no other
PaletteIsDistinctColours ==
    LET all == UNION {Range(images[k].pixels) : k \in 1..Len(images)}
    IN  /\ Len(palette) = Cardinality(all)
        /\ \A colour \in all :
              /\ Cardinality({k \in 1..Len(palette) : palette[k] = colour}) = 1
              /\ index(palette, colour).found
              /\ index(palette, colour).at \in 0..(Len(palette) - 1)
              /\ palette[index(palette, colour).at + 1] = colour

\* C5: the palette has as many entries as there are distinct colours in all
\* the images together; every pixel of every image has exactly one index,
\* within the palette, which is its colour's alone; and the palette, hence
\* every index, stays as built for the rest of the run.
C5_PaletteIsTheDistinctColours ==
    /\ [](PaletteBuilt => PaletteIsDistinctColours)
    /\ [][PaletteBuilt => palette' = palette]_vars

\* a finished run of two images that share a colour and differ in another
C5_Witness ==
    /\ pc = "done"
    /\ Len(images) = 2
    /\ Range(images[1].pixels) \cap Range(images[2].pixels) # {}
    /\ Range(images[1].pixels) # Range(images[2].pixels)
    /\ Len(palette) < Len(FlatPixels(images))

\* C6: a finished run's address table has one entry per image, in input
\* order, then one end marker; ASSET_MAX is the number of images; and the
\* position constant of every image is its place in the input, from 0.
C6_TableMatchesImages ==
    pc = "done" =>
        LET entries == ItemsOf(file, "defw")
            consts  == ItemsOf(file, "equ_expr")
        IN  /\ Len(entries) = Len(images)
            /\ \A k \in 1..Len(images) : entries[k].ref = "_" \o images[k].name
            /\ Cardinality({j \in 1..Len(file) : file[j].kind = "label"
                                /\ file[j].label = aatable \o "End"}) = 1
            /\ Len(consts) = Len(images) + 1
            /\ ExprValues(file, consts[1]) = {Len(images)}
            /\ \A k \in 1..Len(images) : ExprValues(file, consts[k + 1]) = {k - 1}

\* C7: a run without input images goes no further than the empty-input
\* failure: no palette, no assets.s; and a run with a file that cannot be
\* read fails while collecting, before assets.s is created.
C7_FailuresBeforeOutput ==
    /\ args = <<>> =>
          /\ pc \in {"collect", "ensure", "failed"}
          /\ pc = "failed" => err = "No Images to process."
          /\ ~file_created /\ file = <<>> /\ palette = <<>>
    /\ FailedArgs(args) # {} =>
          /\ pc \in {"collect", "failed"}
          /\ pc = "failed" => err \in FailKinds
          /\ ~file_created /\ file = <<>> /\ palette = <<>>

\* the run without input images has failed
C7_Witness == args = <<>> /\ pc = "failed" /\ err = "No Images to process."

\* one step of the pipeline: the next stage, or the failure that ends the run
LinearStep ==
    /\ <<pc, pc'>> \in {<<"collect", "ensure">>, <<"ensure", "create">>,
                        <<"create", "palette">>, <<"palette", "bits">>,
                        <<"bits", "assets">>, <<"assets", "assets">>,
                        <<"assets", "done">>}
                       \cup ({"collect", "ensure", "create", "palette", "bits", "assets"}
                                \X {"failed", "panicked"})
    /\ pc = "assets" =>
          /\ palette' = palette
          /\ bits_per_colour' = bits_per_colour
          /\ pixels_per_byte' = pixels_per_byte
    /\ (pc = "assets" /\ pc' = "assets") =>
          /\ Len(labels') = Len(labels) + 1
          /\ ItemsOf(file', "image") = Append(ItemsOf(file, "image"), file'[Len(file')])
    /\ pc' = "done" => Len(ItemsOf(file, "image")) = Len(images)

\* the blocks written are those of the first images, in input order, after
\* the palette of the colours of all the images, and before any table line
BlocksInOrder ==
    LET blocks == ItemsOf(file, "image")
    IN  /\ Len(blocks) <= Len(images)
        /\ \A k \in 1..Len(blocks) : blocks[k].label = "_" \o images[k].name
        /\ packed # <<>> =>
              /\ PaletteBuilt
              /\ \A k \in 1..Len(images) : Range(images[k].pixels) \subseteq Range(palette)
        /\ \A j \in 1..Len(file) :
              file[j].kind \in {"align", "label", "defw", "equ_expr"} =>
                  Len(ItemsOf(SubSeq(file, 1, j), "image")) = Len(images)
        /\ \A j \in 1..Len(file) :
              file[j].kind = "image" =>
                  /\ ItemsOf(SubSeq(file, 1, j), "palette") # <<>>
                  /\ Len(ItemsOf(SubSeq(file, 1, j), "equ")) = 2

\* C9: a run goes through collecting, the palette, the images one by one in
\* input order, the table, and the end, in that order: the palette and the
\* two widths are set before the first image is packed and are the same for
\* every image, no image is packed before the palette holds the colours of
\* all the images, and the table follows the last block.
C9_LinearPipeline ==
    /\ [][LinearStep]_vars
    /\ []BlocksInOrder

\* a finished run of two images with pixels
C9_Witness ==
    /\ pc = "done"
    /\ Len(images) = 2
    /\ images[1].pixels # <<>> /\ images[2].pixels # <<>>
    /\ Len(ItemsOf(file, "image")) = 2

\* C10: with a palette of more than 256 colours no image is ever packed and
\* the run does not finish; with 2 to 256 colours every palette index fits
\* in bits_per_colour bits and the fields of a byte fit in its 8 bits.
C10_NoWrappedIndices ==
    BitsComputed =>
        /\ Len(palette) > U8Size =>
              /\ pc # "done"
              /\ \A k \in 1..Len(packed) : ~packed[k].ok
              /\ ItemsOf(file, "image") = <<>>
        /\ Len(palette) \in 2..U8Size =>
              /\ bits_per_colour \in 1..U8Bits
              /\ Len(palette) <= Pow2(bits_per_colour)
              /\ pixels_per_byte >= 1
              /\ pixels_per_byte * bits_per_colour <= U8Bits

\* the run on more than 256 colours has ended in the panic of chunks(0)
C10_Witness ==
    /\ Len(palette) > U8Size
    /\ pc = "panicked"
    /\ err = "chunk size must be non-zero"

\* No run of main meets a colour its palette cannot resolve: the palette is
\* built from the very images that are packed.
LookupAlwaysResolves ==
    /\ err # "_Palette doesn't contain this pixel."
    /\ \A k \in 1..Len(packed) : packed[k].why # "_Palette doesn't contain this pixel."

====
